---- MODULE Spec2Model ----
(***************************************************************************)
(* PopplerShot: the batch conversion engine.                               *)
(*   BatchProcessor::process_directory / worker_thread / cancel_processing *)
(*   (src/src/file_utils.cpp) and PDFConverter::convert_pdf                *)
(*   (src/src/pdf_converter.cpp).                                          *)
(* One run of process_directory is modelled: the calling thread, the       *)
(* worker threads it launches, and, inside each worker, the page tasks     *)
(* that convert_pdf dispatches with std::async.  The console ProgressBar   *)
(* widget (progress_bar.cpp) draws only and is not part of the state.      *)
(***************************************************************************)
EXTENDS Integers, Sequences, FiniteSets, TLC

\* ---------------------------------------------------------------- bounds
MaxThreads == 2
MaxDocs == 2
MaxPages == 1
ConvMaxPages == 3
MaxCores == 1
ObservedDocs == 3
ParallelPages == 2
MaxPageIndex == 1000
ConvMaxCores == 3

Min(a, b) == IF a < b THEN a ELSE b
Max(a, b) == IF a > b THEN a ELSE b

Workers == 1..Max(MaxThreads, MaxCores)

VARIABLES
    \* BatchProcessor members
    num_threads_,        \* int num_threads_
    cancel_requested_,   \* std::atomic<bool> cancel_requested_
    \* the environment of the run
    hardware_concurrency,\* what std::thread::hardware_concurrency() returns
    docs,                \* per discovered file: -1 = no document, -2 = locked document, else its page count
    dir_ok,              \* whether ensure_output_directory succeeds
    has_callback,        \* whether progress_callback is non-null
    call,                \* a direct call of a PDFConverter function: its name and arguments
    ret,                 \* what that call returned, or NoRet before it has run
    paths,               \* per discovered file: its path (directory, stem, extension)
    first_run,           \* NoRun, or what an earlier run on the same directories left
    other_run,           \* another process_directory call on the same BatchProcessor:
                         \* "none", "running" (past its line 129) or "returned"
    \* locals of process_directory
    mpc,                 \* position of the calling thread
    pdf_files,           \* the discovered list (indices into docs)
    output_dir,          \* "untouched" until ensure_output_directory ran, then "ready" or "failed"
    result,              \* BatchResult result
    result_read,         \* per worker: the shared result as its "Update results" block reads it
    result_mutex,        \* std::mutex result_mutex: 0 = free, else the worker holding it
    file_index,          \* std::atomic<int> file_index
    launched,            \* workers.size()
    joined,              \* number of workers joined so far
    \* locals of worker_thread, per worker
    wpc,                 \* position of the worker
    current_index,       \* int current_index
    progress,            \* ProgressInfo progress
    \* locals of convert_pdf, per worker
    page_count,          \* int page_count
    page_semaphore,      \* permits available in std::counting_semaphore page_semaphore
    doc_mutex,           \* std::mutex doc_mutex: 0 = free, else the page task (1-based) holding it
    futures,             \* std::vector<std::future<bool>> futures: the state of each page task
    collected,           \* number of futures already waited for by the collect loop
    conversion_result,   \* ConversionResult result of convert_pdf / conversion_result of the worker
    \* history, for stating the properties
    claim_log,           \* the values fetch_add returned, in order
    recorded,            \* per document index: how many outcomes were added to result
    cancel_mark,         \* -1, or the number of documents claimed when cancel_processing set the flag
    observed,            \* the ProgressInfo values the observer received, in order
    observed_on,         \* for each of them, the worker thread that made the call
    out_files,           \* the output directory: the paths of the files in it
    writers,             \* the saves of this run: << output path, document, page >>
    succeeded            \* per document index: how many of its page tasks returned true

vars == << num_threads_, cancel_requested_, hardware_concurrency, docs, dir_ok, has_callback,
           other_run, call, ret, paths, first_run,
           mpc, pdf_files, output_dir, result, result_read, result_mutex, file_index, launched, joined,
           wpc, current_index, progress,
           page_count, page_semaphore, doc_mutex, futures, collected, conversion_result,
           claim_log, recorded, cancel_mark, observed, observed_on, out_files, writers, succeeded >>

call_vars == << call, ret >>
file_vars == << paths, first_run >>
env_vars == << num_threads_, hardware_concurrency, docs, dir_ok, has_callback, other_run, call_vars,
              file_vars >>
main_vars == << mpc, pdf_files, output_dir, launched, joined >>
conv_vars == << page_count, page_semaphore, doc_mutex, futures, collected, conversion_result >>
hist_vars == << claim_log, recorded, cancel_mark, observed, observed_on, out_files, writers, succeeded >>

\* ------------------------------------------------------------ data types
NoRun == [out_files |-> {}, writers |-> {}, run |-> 0]
NoCall == [fn |-> "none"]
NoRet == [kind |-> "none"]
NoResult == [success |-> FALSE, error_message |-> "", pages_converted |-> 0]
NoProgress == [current_file |-> 0, total_files |-> 0, pages_processed |-> 0]
EmptyBatch == [total_pdfs |-> 0, successful_conversions |-> 0, failed_conversions |-> 0,
               total_pages_converted |-> 0, errors |-> << >>]

\* a page task is: not yet at acquire ("wait"), holding a permit ("acquired"),
\* inside the doc_mutex block ("locked"), holding a page ("created") or a null
\* page ("nopage"), or finished with the future's value ("true", "false") or
\* its stored exception ("exception")
Active == {"acquired", "locked", "created", "nopage"}
Finished == {"true", "false", "exception"}

N == Len(pdf_files)

\* BatchProcessor::BatchProcessor / set_thread_count: a count <= 0 is replaced
\* by the detected hardware concurrency
NormalizeThreads(requested, detected) == IF requested <= 0 THEN detected ELSE requested

\* convert_pdf: const int max_concurrent_pages = min(8, max(2, hardware_concurrency()))
MaxConcurrentPages(detected) == Min(8, Max(2, detected))

max_concurrent_pages == MaxConcurrentPages(hardware_concurrency)

\* ------------------------------------------------- operations on the data
\* process_directory: result.total_pdfs = pdf_files.size() is assigned before
\* either early return; each early return adds one error entry (path 0 stands
\* for the directory, which is not one of the documents)
NoFilesNoError(n) == [EmptyBatch EXCEPT !.total_pdfs = n]
NoFilesResult(n) ==
    [EmptyBatch EXCEPT !.total_pdfs = n,
                       !.errors = << [path |-> 0, message |-> "No PDF files found in input directory"] >>]

DirFailedNoError(n) == [EmptyBatch EXCEPT !.total_pdfs = n]
DirFailedResult(n) ==
    [EmptyBatch EXCEPT !.total_pdfs = n,
                       !.errors = << [path |-> 0, message |-> "Failed to create output directory"] >>]

\* file_index.fetch_add(1): the value stored back
FetchAddLost(v) == v
FetchAdd(v) == v + 1

\* worker_thread: if (current_index >= static_cast<int>(pdf_files.size())) break;
PastEndOffByOne(index, size) == index > size
PastEnd(index, size) == index >= size

\* worker_thread: while (!cancel_requested_)
LoopIgnoresCancel(cancel) == TRUE
LoopContinues(cancel) == ~cancel

\* process_directory: for (i = 0; i < num_threads_ && !cancel_requested_; ++i)
LaunchAllThreads(i, n, cancel) == i < MaxThreads /\ ~cancel
LaunchOneFewer(i, n, cancel) == i + 1 < n /\ ~cancel
LaunchMore(i, n, cancel) == i < n /\ ~cancel

\* process_directory: worker.join() returns once the thread has finished
JoinNoWait(state) == TRUE
JoinReady(state) == state = "exited"

\* convert_pdf: for (int i = 0; i < page_count; ++i)
DispatchUntilCancel(i, count, cancel) == i < count /\ ~cancel
DispatchMore(i, count, cancel) == i < count

\* std::lock_guard<std::mutex> blocks while another thread holds the mutex
\* (0 = nobody does)
LockUnchecked(holder) == TRUE
CanLock(holder) == holder = 0

\* page_semaphore.acquire() blocks while no permit is available
AcquireUnchecked(permits) == TRUE
CanAcquire(permits) == permits > 0

\* ~SemaphoreGuard() { sem.release(); } runs however the task leaves:
\* by return ("true", "false") or by a thrown exception ("exception")
ReleaseOnReturnOnly(permits, how) == IF how = "exception" THEN permits ELSE permits + 1
GuardRelease(permits, how) == permits + 1

\* load_document: nullptr when from_file gave no document (-1) or the
\* document is locked (-2); otherwise the document with its page count
LoadsWhenLocked(pages) == pages # -1
Loads(pages) == pages >= 0

\* convert_pdf: if (!doc) { result.error_message = "Failed to load PDF document"; return result; }
LoadFailedSilent(res) == res
LoadFailed(res) == [res EXCEPT !.error_message = "Failed to load PDF document"]

\* collect loop: try { future.get() } catch (const std::exception&) { log }:
\* whatever get() gives, the loop goes on to the next future
AfterGetPropagates(value) == IF value = "exception" THEN "terminated" ELSE "collect"
AfterGet(value) == "collect"

\* collect loop: if (future.get()) result.pages_converted++; a stored
\* exception is rethrown by get() and caught, counting nothing
CountAnyReturn(value) == IF value = "exception" THEN 0 ELSE 1
CountPage(value) == IF value = "true" THEN 1 ELSE 0

\* convert_pdf: result.success = result.pages_converted > 0, and the message
\* set when no page was converted
FinishAlwaysSuccess(res) == [res EXCEPT !.success = TRUE]
FinishResult(res) ==
    [res EXCEPT !.success = res.pages_converted > 0,
                !.error_message = IF res.pages_converted > 0 THEN ""
                                  ELSE "No pages were successfully converted"]

\* worker_thread: if (progress_callback) { build the snapshot, call the
\* observer } comes between the claim and convert_pdf
AfterClaimSkipsCallback(callback) == "convert"
AfterClaim(callback) == IF callback THEN "snapshot" ELSE "convert"

\* worker_thread: progress.pages_processed = result.total_pages_converted
SnapshotCountsFiles(r) == r.successful_conversions + r.failed_conversions
SnapshotPages(r) == r.total_pages_converted

\* worker_thread: the closing brace of the lock_guard block around the pages
\* read, before progress_callback(progress)
SnapshotKeepsLock(holder) == holder
SnapshotUnlock(holder) == 0

\* worker_thread, "Update results": what one ConversionResult does to result
RecordDropsFailure(r, res, path) ==
    IF res.success
    THEN [r EXCEPT !.successful_conversions = @ + 1,
                   !.total_pages_converted = @ + res.pages_converted]
    ELSE r
RecordErrorAlways(r, res, path) ==
    IF res.success
    THEN [r EXCEPT !.successful_conversions = @ + 1,
                   !.total_pages_converted = @ + res.pages_converted,
                   !.errors = Append(@, [path |-> path, message |-> res.error_message])]
    ELSE [r EXCEPT !.failed_conversions = @ + 1,
                   !.errors = Append(@, [path |-> path, message |-> res.error_message])]
RecordAssignsPages(r, res, path) ==
    IF res.success
    THEN [r EXCEPT !.successful_conversions = @ + 1,
                   !.total_pages_converted = res.pages_converted]
    ELSE [r EXCEPT !.failed_conversions = @ + 1,
                   !.errors = Append(@, [path |-> path, message |-> res.error_message])]
RecordOutcome(r, res, path) ==
    IF res.success
    THEN [r EXCEPT !.successful_conversions = @ + 1,
                   !.total_pages_converted = @ + res.pages_converted]
    ELSE [r EXCEPT !.failed_conversions = @ + 1,
                   !.errors = Append(@, [path |-> path, message |-> res.error_message])]

\* worker_thread: after the result is recorded the loop goes back to its test
StopAfterFailure(res) == IF res.success THEN "check" ELSE "exited"
AfterRecord(res) == "check"

\* ------------------------------------------- generate_output_filename
\* a path as std::filesystem::path sees it: parent directory, stem and
\* extension of the file name
Stem(path) == path.stem

\* std::to_string(int): the decimal digits, most significant first
DigitChar(d) ==
    CASE d = 0 -> "0" [] d = 1 -> "1" [] d = 2 -> "2" [] d = 3 -> "3" [] d = 4 -> "4"
      [] d = 5 -> "5" [] d = 6 -> "6" [] d = 7 -> "7" [] d = 8 -> "8" [] d = 9 -> "9"

RECURSIVE to_string(_)
to_string(n) ==
    IF n < 0 THEN "-" \o to_string(-n)
    ELSE IF n < 10 THEN DigitChar(n)
    ELSE to_string(n \div 10) \o DigitChar(n % 10)

\* std::string(count, '0')
RECURSIVE Zeros(_)
Zeros(count) == IF count = 0 THEN "" ELSE "0" \o Zeros(count - 1)

\* convert_pdf: generate_output_filename(pdf_path, i + 1, options.output_format)
PageNumberZeroBased(i) == i
PageNumber(i) == i + 1

\* size_t: an unsigned integer of SizeLimbs limbs of 16 bits, least
\* significant limb first
LimbBase == 65536
SizeLimbs == 4
SizeT(n) == [k \in 1..SizeLimbs |-> IF k = 1 THEN n ELSE 0]

\* a - b in size_t: limb by limb with borrow, the final borrow dropped (the
\* difference modulo 2^(16 * SizeLimbs))
RECURSIVE SizeSubFrom(_, _, _, _)
SizeSubFrom(a, b, k, borrow) ==
    IF k > SizeLimbs THEN << >>
    ELSE LET d == a[k] - b[k] - borrow
         IN  << (d + LimbBase) % LimbBase >> \o SizeSubFrom(a, b, k + 1, IF d < 0 THEN 1 ELSE 0)
SizeSub(a, b) == SizeSubFrom(a, b, 1, 0)

\* 3 - std::to_string(page_number).length(): length() is a size_t, so the int
\* 3 is converted and the subtraction is unsigned
PaddingClamped(length) == SizeT(Max(3 - length, 0))
PaddingCount(length) == SizeSub(SizeT(3), SizeT(length))

\* std::string(count, '0') throws std::length_error when count > max_size(),
\* which is below 2^(16 * SizeLimbs - 1) on every implementation
ExceedsMaxSize(count) == count[SizeLimbs] >= LimbBase \div 2

\* for more than 3 digits the count wraps to a value above max_size() and the
\* std::string constructor throws std::length_error
GenerateOutputFilename(pdf_path, page_number, extension) ==
    LET digits == to_string(page_number)
        count == PaddingCount(Len(digits))
    IN
    IF ExceedsMaxSize(count)
    THEN [kind |-> "throws", value |-> "length_error"]
    ELSE [kind |-> "string",
          value |-> Stem(pdf_path) \o "_page_" \o Zeros(count[1]) \o digits
                        \o "." \o extension]

\* the paths and formats the function is called with
Paths ==
    { [dir |-> "in", stem |-> "report", extension |-> ".pdf"],
      [dir |-> "in/a", stem |-> "report", extension |-> ".pdf"],
      [dir |-> "in", stem |-> "notes.v2", extension |-> ".PDF"] }
Formats == {"png", "jpg"}

\* the files of a directory that holds only distinct stems
DocPath(d) == [dir |-> "in", stem |-> "doc" \o to_string(d), extension |-> ".pdf"]

\* convert_pdf: std::filesystem::path(output_dir) / output_filename
OutputPath(output_filename) == "out/" \o output_filename

\* img.save(output_path, format): creates the file or overwrites the one of
\* that name
SaveKeepsOld(files, output_path) ==
    IF output_path \in files THEN files \cup {output_path \o ".1"} ELSE files \cup {output_path}
SaveImage(files, output_path) == files \cup {output_path}

\* the page task's call for page index i of a document
CallGenerateOutputFilename ==
    /\ call.fn = "generate_output_filename"
    /\ ret = NoRet
    /\ ret' = GenerateOutputFilename(call.pdf_path, PageNumber(call.i), call.output_format)
    /\ UNCHANGED << num_threads_, cancel_requested_, hardware_concurrency, docs, dir_ok,
                    has_callback, other_run, call, file_vars, main_vars, result, result_read, result_mutex,
                    file_index, wpc, current_index, progress, conv_vars, hist_vars >>

\* ------------------------------------------------- save_page_as_image
\* the doubles of the scale computation, kept exact: << n, d >> is n / d, d > 0
Frac(n, d) == << n, d >>
FracLess(a, b) == a[1] * b[2] < b[1] * a[2]
FracEq(a, b) == a[1] * b[2] = b[1] * a[2]
\* k * f for an integer k
Scaled(k, f) == << k * f[1], f[2] >>
\* f > k for an integer k
ExceedsInt(f, k) == f[1] > k * f[2]

\* std::min(a, b): b when b < a, else a
FracMax(a, b) == IF FracLess(a, b) THEN b ELSE a
FracMin(a, b) == IF FracLess(b, a) THEN b ELSE a

\* save_page_as_image, "Calculate scaling factors" to the render call
ComputeScale(options, page_width, page_height) ==
    LET base == Frac(options.dpi, 72)
        limited == options.max_width > 0 \/ options.max_height > 0
        target_width == Scaled(page_width, base)
        target_height == Scaled(page_height, base)
        scale_x == IF limited /\ options.max_width > 0 /\ ExceedsInt(target_width, options.max_width)
                   THEN Frac(options.max_width, page_width)
                   ELSE base
        scale_y == IF limited /\ options.max_height > 0 /\ ExceedsInt(target_height, options.max_height)
                   THEN Frac(options.max_height, page_height)
                   ELSE base
        min_scale == FracMin(scale_x, scale_y)
    IN  IF limited /\ options.preserve_aspect_ratio
        THEN [kind |-> "scale", scale_x |-> min_scale, scale_y |-> min_scale]
        ELSE [kind |-> "scale", scale_x |-> scale_x, scale_y |-> scale_y]

\* the options and page rectangles the function is called with
Dpis == {72, 150, 300}
PageSizes == {100, 200}
Limits == {-1, 0, 150, 1000}

CallSavePageAsImage ==
    /\ call.fn = "save_page_as_image"
    /\ ret = NoRet
    /\ ret' = ComputeScale(call.options, call.page_width, call.page_height)
    /\ UNCHANGED << num_threads_, cancel_requested_, hardware_concurrency, docs, dir_ok,
                    has_callback, other_run, call, file_vars, main_vars, result, result_read, result_mutex,
                    file_index, wpc, current_index, progress, conv_vars, hist_vars >>

CallStep ==
    \/ CallGenerateOutputFilename
    \/ CallSavePageAsImage

\* ------------------------------------------------------- convert_page
\* convert_page(pdf_path, page_number, output_path, options) on a document of
\* `pages` pages (-1, -2: load_document gives nullptr); `page` is what
\* create_page gives and `saved` what save_page_as_image returns. The field
\* rendered tells whether create_page was reached.
ConvertPageNoRangeCheck(pages, page_number, page, saved) ==
    IF ~Loads(pages)
    THEN [result |-> [NoResult EXCEPT !.error_message = "Failed to load PDF document"],
          rendered |-> FALSE]
    ELSE IF page = "nopage"
    THEN [result |-> [NoResult EXCEPT !.error_message = "Failed to create page"],
          rendered |-> TRUE]
    ELSE IF saved
    THEN [result |-> [success |-> TRUE, error_message |-> "", pages_converted |-> 1],
          rendered |-> TRUE]
    ELSE [result |-> [NoResult EXCEPT !.error_message = "Failed to save page as image"],
          rendered |-> TRUE]
ConvertPage(pages, page_number, page, saved) ==
    IF ~Loads(pages)
    THEN [result |-> [NoResult EXCEPT !.error_message = "Failed to load PDF document"],
          rendered |-> FALSE]
    ELSE IF page_number < 1 \/ page_number > pages
    THEN [result |-> [NoResult EXCEPT !.error_message = "Invalid page number"],
          rendered |-> FALSE]
    ELSE IF page = "nopage"
    THEN [result |-> [NoResult EXCEPT !.error_message = "Failed to create page"],
          rendered |-> TRUE]
    ELSE IF saved
    THEN [result |-> [success |-> TRUE, error_message |-> "", pages_converted |-> 1],
          rendered |-> TRUE]
    ELSE [result |-> [NoResult EXCEPT !.error_message = "Failed to save page as image"],
          rendered |-> TRUE]

\* the documents and page numbers convert_page is called with
PageCalls ==
    { [fn |-> "convert_page", pages |-> pages, page_number |-> page_number] :
        pages \in -2..ConvMaxPages, page_number \in -1..(ConvMaxPages + 1) }

\* a caller converts a single page once the batch has returned
CallConvertPage ==
    /\ mpc = "returned"
    /\ call = NoCall
    /\ \E c \in PageCalls, page \in {"created", "nopage"}, saved \in BOOLEAN :
          /\ call' = c
          /\ ret' = [kind |-> "result"] @@ ConvertPage(c.pages, c.page_number, page, saved)
    /\ UNCHANGED << num_threads_, cancel_requested_, hardware_concurrency, docs, dir_ok,
                    has_callback, other_run, file_vars, main_vars, result, result_read, result_mutex,
                    file_index, wpc, current_index, progress, conv_vars, hist_vars >>

\* ------------------------------------------------------------------ Init
InitRun(requests, cores, counts, pages) ==
    /\ \E requested \in requests, detected \in cores :
          /\ num_threads_ = NormalizeThreads(requested, detected)
          /\ hardware_concurrency = detected
    /\ \E n \in counts : docs \in [1..n -> pages]
    /\ dir_ok \in BOOLEAN
    /\ has_callback \in BOOLEAN
    /\ cancel_requested_ \in BOOLEAN
    /\ other_run = "none"
    /\ mpc = "start"
    /\ pdf_files = << >>
    /\ output_dir = "untouched"
    /\ result = EmptyBatch
    /\ result_read = [w \in Workers |-> EmptyBatch]
    /\ result_mutex = 0
    /\ file_index = 0
    /\ launched = 0
    /\ joined = 0
    /\ wpc = [w \in Workers |-> "idle"]
    /\ current_index = [w \in Workers |-> -1]
    /\ progress = [w \in Workers |-> NoProgress]
    /\ page_count = [w \in Workers |-> 0]
    /\ page_semaphore = [w \in Workers |-> 0]
    /\ doc_mutex = [w \in Workers |-> 0]
    /\ futures = [w \in Workers |-> << >>]
    /\ collected = [w \in Workers |-> 0]
    /\ conversion_result = [w \in Workers |-> NoResult]
    /\ claim_log = << >>
    /\ recorded = [d \in 1..Len(docs) |-> 0]
    /\ cancel_mark = -1
    /\ observed = << >>
    /\ observed_on = << >>
    /\ succeeded = [d \in 1..Len(docs) |-> 0]
    /\ out_files = {}
    /\ writers = {}
    /\ first_run = NoRun

\* a processor on which process_directory will be called; no direct call of a
\* PDFConverter function is made
InitWith(requests, cores, counts, pages) ==
    /\ InitRun(requests, cores, counts, pages)
    /\ paths = [d \in 1..Len(docs) |-> DocPath(d)]
    /\ call = NoCall
    /\ ret = NoRet

\* direct calls of the two functions, on a processor that is not running
FilenameCalls ==
    { [fn |-> "generate_output_filename", pdf_path |-> path, i |-> i, output_format |-> format] :
        path \in Paths, i \in 0..MaxPageIndex, format \in Formats }
ScaleCalls ==
    { [fn |-> "save_page_as_image", options |-> options, page_width |-> width, page_height |-> height] :
        options \in [dpi : Dpis, max_width : Limits, max_height : Limits,
                     preserve_aspect_ratio : BOOLEAN],
        width \in PageSizes, height \in PageSizes }

InitCalls ==
    /\ InitRun({MaxThreads}, {MaxCores}, {0}, {})
    /\ dir_ok /\ has_callback /\ ~cancel_requested_
    /\ paths = << >>
    /\ call \in FilenameCalls \cup ScaleCalls
    /\ ret = NoRet

\* a batch of up to MaxDocs documents of up to MaxPages pages
Init == InitWith(0..MaxThreads, 0..MaxCores, 0..MaxDocs, -1..MaxPages)

\* two workers, an observer and ObservedDocs documents of one page each
InitObserved == InitWith({MaxThreads}, {MaxCores}, {ObservedDocs}, {MaxPages}) /\ has_callback /\ dir_ok

\* a batch of MaxDocs documents that load, on a processor used by two callers
InitShared == InitWith(1..MaxThreads, {MaxCores}, {MaxDocs}, 0..MaxPages) /\ dir_ok

\* up to MaxThreads workers on MaxDocs documents of ParallelPages pages each
InitParallel == InitWith(1..MaxThreads, {MaxCores}, {MaxDocs}, {ParallelPages}) /\ dir_ok

\* a batch of MaxDocs one-page documents whose paths find_pdf_files returned:
\* distinct paths, which may share a stem
InitFiles ==
    /\ InitRun({MaxThreads}, {MaxCores}, {MaxDocs}, {MaxPages})
    /\ dir_ok
    /\ paths \in {f \in [1..Len(docs) -> Paths] : \A d, e \in 1..Len(docs) : f[d] = f[e] => d = e}
    /\ call = NoCall
    /\ ret = NoRet

\* cancel_processing() has completed before process_directory is called: the
\* flag is true when the run starts
InitEarly ==
    /\ InitWith(0..MaxThreads, 0..MaxCores, 1..MaxDocs, -1..MaxPages)
    /\ cancel_requested_
    /\ dir_ok

\* two workers, an observer and MaxDocs documents
InitBlocked == InitWith({MaxThreads}, {MaxCores}, {MaxDocs}, -1..MaxPages) /\ has_callback /\ dir_ok

\* one worker converting one document of up to ConvMaxPages pages
InitConv == InitWith({1}, 0..ConvMaxCores, {1}, -2..ConvMaxPages)

\* --------------------------------------------------- process_directory
Begin ==
    /\ mpc = "start"
    /\ cancel_requested_' = FALSE
    /\ pdf_files' = [k \in 1..Len(docs) |-> k]
    /\ IF Len(docs) = 0
       THEN /\ result' = NoFilesResult(Len(docs))
            /\ output_dir' = "untouched"
            /\ mpc' = "returned"
       ELSE IF ~dir_ok
       THEN /\ result' = DirFailedResult(Len(docs))
            /\ output_dir' = "failed"
            /\ mpc' = "returned"
       ELSE /\ result' = [EmptyBatch EXCEPT !.total_pdfs = Len(docs)]
            /\ output_dir' = "ready"
            /\ mpc' = "launch"
    /\ UNCHANGED << env_vars, result_read, result_mutex, file_index, launched, joined,
                    wpc, current_index, progress, conv_vars, hist_vars >>

LaunchWorker ==
    /\ mpc = "launch"
    /\ LaunchMore(launched, num_threads_, cancel_requested_)
    /\ launched' = launched + 1
    /\ wpc' = [wpc EXCEPT ![launched + 1] = "check"]
    /\ UNCHANGED << env_vars, result_read, cancel_requested_, mpc, pdf_files, output_dir, result, result_mutex,
                    file_index, joined, current_index, progress, conv_vars, hist_vars >>

LaunchDone ==
    /\ mpc = "launch"
    /\ ~LaunchMore(launched, num_threads_, cancel_requested_)
    /\ mpc' = "join"
    /\ UNCHANGED << env_vars, result_read, cancel_requested_, pdf_files, output_dir, result, result_mutex, file_index,
                    launched, joined, wpc, current_index, progress, conv_vars, hist_vars >>

JoinWorker ==
    /\ mpc = "join"
    /\ joined < launched
    /\ JoinReady(wpc[joined + 1])
    /\ joined' = joined + 1
    /\ UNCHANGED << env_vars, result_read, cancel_requested_, mpc, pdf_files, output_dir, result, result_mutex,
                    file_index, launched, wpc, current_index, progress, conv_vars, hist_vars >>

Return ==
    /\ mpc = "join"
    /\ joined = launched
    /\ mpc' = "returned"
    /\ UNCHANGED << env_vars, result_read, cancel_requested_, pdf_files, output_dir, result, result_mutex, file_index,
                    launched, joined, wpc, current_index, progress, conv_vars, hist_vars >>

\* ---------------------------------------------------- set_thread_count
\* the arguments a caller passes to set_thread_count
Requests == -1..MaxThreads

\* called between construction and process_directory; the count is capped at
\* MaxThreads
SetThreadCount(count) ==
    /\ mpc = "start"
    /\ NormalizeThreads(count, hardware_concurrency) <= MaxThreads
    /\ num_threads_' = NormalizeThreads(count, hardware_concurrency)
    /\ UNCHANGED << cancel_requested_, hardware_concurrency, docs, dir_ok, has_callback,
                    other_run, call_vars, file_vars, main_vars, result, result_read, result_mutex, file_index, wpc, current_index, progress,
                    conv_vars, hist_vars >>

\* --------------------------------------------------- cancel_processing
Cancel ==
    /\ mpc \in {"launch", "join"}
    /\ ~cancel_requested_
    /\ cancel_requested_' = TRUE
    /\ cancel_mark' = Min(file_index, N)
    /\ UNCHANGED << env_vars, result_read, main_vars, result, result_mutex, file_index,
                    wpc, current_index, progress, conv_vars, claim_log, recorded, observed, observed_on, out_files, writers, succeeded >>

\* ------------------------------------------------ the same batch again
\* process_directory is called again with the same arguments after the first
\* call has returned: every local of the call starts afresh, the files of the
\* output directory stay
RunAgain ==
    /\ mpc = "returned"
    /\ output_dir = "ready"
    /\ first_run = NoRun
    /\ first_run' = [out_files |-> out_files, writers |-> writers, run |-> 1]
    /\ mpc' = "start"
    /\ pdf_files' = << >>
    /\ output_dir' = "untouched"
    /\ result' = EmptyBatch
    /\ file_index' = 0
    /\ launched' = 0
    /\ joined' = 0
    /\ wpc' = [w \in Workers |-> "idle"]
    /\ claim_log' = << >>
    /\ recorded' = [d \in 1..Len(docs) |-> 0]
    /\ cancel_mark' = -1
    /\ observed' = << >>
    /\ observed_on' = << >>
    /\ succeeded' = [d \in 1..Len(docs) |-> 0]
    /\ writers' = {}
    /\ UNCHANGED << num_threads_, cancel_requested_, hardware_concurrency, docs, dir_ok,
                    has_callback, other_run, call_vars, paths, result_read, result_mutex,
                    current_index, progress, conv_vars, out_files >>

\* ------------------------------- a second run on the same BatchProcessor
\* Another thread calls process_directory on the same object while this run is
\* in its worker phase. Its pdf_files, result, result_mutex and file_index are
\* locals of that call; what the two calls share are the members
\* cancel_requested_ (written at the start of each call and by
\* cancel_processing, which names no run) and num_threads_.
OtherBegin ==
    /\ mpc \in {"launch", "join"}
    /\ other_run = "none"
    /\ cancel_requested_' = FALSE
    /\ other_run' = "running"
    /\ UNCHANGED << num_threads_, hardware_concurrency, docs, dir_ok, has_callback, call_vars,
                    file_vars, main_vars, result, result_read, result_mutex, file_index, wpc, current_index,
                    progress, conv_vars, hist_vars >>

\* cancel_processing called to stop the other run
OtherCancel ==
    /\ other_run = "running"
    /\ ~cancel_requested_
    /\ cancel_requested_' = TRUE
    /\ UNCHANGED << env_vars, main_vars, result, result_read, result_mutex, file_index,
                    wpc, current_index, progress, conv_vars, hist_vars >>

OtherReturn ==
    /\ other_run = "running"
    /\ other_run' = "returned"
    /\ UNCHANGED << num_threads_, hardware_concurrency, docs, dir_ok, has_callback, call_vars,
                    cancel_requested_, file_vars, main_vars, result, result_read, result_mutex, file_index,
                    wpc, current_index, progress, conv_vars, hist_vars >>

OtherStep ==
    \/ OtherBegin
    \/ OtherCancel
    \/ OtherReturn

\* ------------------------------------------------------- worker_thread
\* current_index, progress and conversion_result are locals of one loop
\* iteration: they hold their initial value outside their scope
WorkerCheck(w) ==
    /\ wpc[w] = "check"
    /\ wpc' = [wpc EXCEPT ![w] = IF LoopContinues(cancel_requested_) THEN "claim" ELSE "exited"]
    /\ UNCHANGED << env_vars, result_read, cancel_requested_, main_vars, result, result_mutex, file_index,
                    current_index, progress, conv_vars, hist_vars >>

WorkerClaim(w) ==
    /\ wpc[w] = "claim"
    /\ current_index' = [current_index EXCEPT ![w] = IF PastEnd(file_index, N) THEN -1 ELSE file_index]
    /\ file_index' = FetchAdd(file_index)
    /\ claim_log' = Append(claim_log, file_index)
    /\ wpc' = [wpc EXCEPT ![w] = IF PastEnd(file_index, N) THEN "exited"
                                 ELSE AfterClaim(has_callback)]
    /\ UNCHANGED << env_vars, result_read, cancel_requested_, main_vars, result, result_mutex,
                    progress, conv_vars, recorded, cancel_mark, observed, observed_on, out_files, writers, succeeded >>

WorkerSnapshotLock(w) ==
    /\ wpc[w] = "snapshot"
    /\ CanLock(result_mutex)
    /\ result_mutex' = w
    /\ progress' = [progress EXCEPT ![w] = [current_file |-> current_index[w] + 1,
                                            total_files |-> N,
                                            pages_processed |-> 0]]
    /\ wpc' = [wpc EXCEPT ![w] = "snapshot_read"]
    /\ UNCHANGED << env_vars, result_read, cancel_requested_, main_vars, result, file_index,
                    current_index, conv_vars, hist_vars >>

WorkerSnapshotRead(w) ==
    /\ wpc[w] = "snapshot_read"
    /\ progress' = [progress EXCEPT ![w].pages_processed = SnapshotPages(result)]
    /\ result_mutex' = SnapshotUnlock(result_mutex)
    /\ wpc' = [wpc EXCEPT ![w] = "callback"]
    /\ UNCHANGED << env_vars, result_read, cancel_requested_, main_vars, result, file_index,
                    current_index, conv_vars, hist_vars >>

WorkerCallback(w) ==
    /\ wpc[w] = "callback"
    /\ progress' = [progress EXCEPT ![w] = NoProgress]
    /\ wpc' = [wpc EXCEPT ![w] = "convert"]
    /\ observed' = Append(observed, progress[w])
    /\ observed_on' = Append(observed_on, w)
    /\ UNCHANGED << env_vars, result_read, cancel_requested_, main_vars, result, result_mutex, file_index,
                    current_index, conv_vars, claim_log, recorded, cancel_mark, out_files, writers, succeeded >>

WorkerRecordLock(w) ==
    /\ wpc[w] = "record"
    /\ CanLock(result_mutex)
    /\ result_mutex' = w
    /\ result_read' = [result_read EXCEPT ![w] = result]
    /\ wpc' = [wpc EXCEPT ![w] = "record_locked"]
    /\ UNCHANGED << env_vars, cancel_requested_, main_vars, result, file_index,
                    current_index, progress, conv_vars, hist_vars >>

WorkerRecord(w) ==
    /\ wpc[w] = "record_locked"
    /\ result' = RecordOutcome(result_read[w], conversion_result[w], pdf_files[current_index[w] + 1])
    /\ result_read' = [result_read EXCEPT ![w] = EmptyBatch]
    /\ recorded' = [recorded EXCEPT ![current_index[w] + 1] = @ + 1]
    /\ result_mutex' = 0
    /\ wpc' = [wpc EXCEPT ![w] = AfterRecord(conversion_result[w])]
    /\ page_count' = [page_count EXCEPT ![w] = 0]
    /\ page_semaphore' = [page_semaphore EXCEPT ![w] = 0]
    /\ futures' = [futures EXCEPT ![w] = << >>]
    /\ collected' = [collected EXCEPT ![w] = 0]
    /\ conversion_result' = [conversion_result EXCEPT ![w] = NoResult]
    /\ current_index' = [current_index EXCEPT ![w] = -1]
    /\ UNCHANGED << env_vars, cancel_requested_, main_vars, file_index,
                    progress, doc_mutex, claim_log, cancel_mark, observed, observed_on, out_files, writers, succeeded >>

\* --------------------------------------------------------- convert_pdf
ConvertLoad(w) ==
    /\ wpc[w] = "convert"
    /\ LET pages == docs[pdf_files[current_index[w] + 1]] IN
       IF ~Loads(pages)
       THEN /\ conversion_result' = [conversion_result EXCEPT ![w] = LoadFailed(NoResult)]
            /\ wpc' = [wpc EXCEPT ![w] = "record"]
            /\ UNCHANGED << page_count, page_semaphore >>
       ELSE /\ conversion_result' = [conversion_result EXCEPT ![w] = NoResult]
            /\ page_count' = [page_count EXCEPT ![w] = pages]
            /\ page_semaphore' = [page_semaphore EXCEPT ![w] = max_concurrent_pages]
            /\ wpc' = [wpc EXCEPT ![w] = "dispatch"]
    /\ UNCHANGED << env_vars, result_read, cancel_requested_, main_vars, result, result_mutex, file_index,
                    current_index, progress, doc_mutex, futures, collected, hist_vars >>

ConvertDispatch(w) ==
    /\ wpc[w] = "dispatch"
    /\ DispatchMore(Len(futures[w]), page_count[w], cancel_requested_)
    /\ futures' = [futures EXCEPT ![w] = Append(@, "wait")]
    /\ UNCHANGED << env_vars, result_read, cancel_requested_, main_vars, result, result_mutex, file_index,
                    wpc, current_index, progress, page_count, page_semaphore, doc_mutex,
                    collected, conversion_result, hist_vars >>

ConvertDispatchDone(w) ==
    /\ wpc[w] = "dispatch"
    /\ ~DispatchMore(Len(futures[w]), page_count[w], cancel_requested_)
    /\ wpc' = [wpc EXCEPT ![w] = "collect"]
    /\ UNCHANGED << env_vars, result_read, cancel_requested_, main_vars, result, result_mutex, file_index,
                    current_index, progress, conv_vars, hist_vars >>

ConvertCollect(w) ==
    /\ wpc[w] = "collect"
    /\ collected[w] < Len(futures[w])
    /\ futures[w][collected[w] + 1] \in Finished
    /\ conversion_result' = [conversion_result EXCEPT
          ![w].pages_converted = @ + CountPage(futures[w][collected[w] + 1])]
    /\ collected' = [collected EXCEPT ![w] = @ + 1]
    /\ wpc' = [wpc EXCEPT ![w] = AfterGet(futures[w][collected[w] + 1])]
    /\ UNCHANGED << env_vars, result_read, cancel_requested_, main_vars, result, result_mutex, file_index,
                    current_index, progress, page_count, page_semaphore, doc_mutex,
                    futures, hist_vars >>

ConvertReturn(w) ==
    /\ wpc[w] = "collect"
    /\ collected[w] = Len(futures[w])
    /\ conversion_result' = [conversion_result EXCEPT ![w] = FinishResult(@)]
    /\ wpc' = [wpc EXCEPT ![w] = "record"]
    /\ UNCHANGED << env_vars, result_read, cancel_requested_, main_vars, result, result_mutex, file_index,
                    current_index, progress, page_count, page_semaphore, doc_mutex,
                    futures, collected, hist_vars >>

\* ------------------------------------------- the page task (the lambda)
\* create_page runs inside the lock_guard block; the block is left by
\* assignment of the page (null or not) or by an exception, and both unlock
TaskAcquire(w, p) ==
    /\ p \in 1..Len(futures[w])
    /\ futures[w][p] = "wait"
    /\ CanAcquire(page_semaphore[w])
    /\ page_semaphore' = [page_semaphore EXCEPT ![w] = @ - 1]
    /\ futures' = [futures EXCEPT ![w][p] = "acquired"]
    /\ UNCHANGED << env_vars, result_read, cancel_requested_, main_vars, result, result_mutex, file_index,
                    wpc, current_index, progress, page_count, doc_mutex, collected,
                    conversion_result, hist_vars >>

TaskLock(w, p) ==
    /\ p \in 1..Len(futures[w])
    /\ futures[w][p] = "acquired"
    /\ CanLock(doc_mutex[w])
    /\ doc_mutex' = [doc_mutex EXCEPT ![w] = p]
    /\ futures' = [futures EXCEPT ![w][p] = "locked"]
    /\ UNCHANGED << env_vars, result_read, cancel_requested_, main_vars, result, result_mutex, file_index,
                    wpc, current_index, progress, page_count, page_semaphore, collected,
                    conversion_result, hist_vars >>

TaskCreatePage(w, p) ==
    /\ p \in 1..Len(futures[w])
    /\ futures[w][p] = "locked"
    /\ doc_mutex' = [doc_mutex EXCEPT ![w] = 0]
    /\ \/ /\ \E page \in {"created", "nopage"} : futures' = [futures EXCEPT ![w][p] = page]
          /\ UNCHANGED page_semaphore
       \/ /\ futures' = [futures EXCEPT ![w][p] = "exception"]
          /\ page_semaphore' = [page_semaphore EXCEPT ![w] = GuardRelease(@, "exception")]
    /\ UNCHANGED << env_vars, result_read, cancel_requested_, main_vars, result, result_mutex, file_index,
                    wpc, current_index, progress, page_count, collected,
                    conversion_result, hist_vars >>

TaskNoPage(w, p) ==
    /\ p \in 1..Len(futures[w])
    /\ futures[w][p] = "nopage"
    /\ futures' = [futures EXCEPT ![w][p] = "false"]
    /\ page_semaphore' = [page_semaphore EXCEPT ![w] = GuardRelease(@, "false")]
    /\ UNCHANGED << env_vars, result_read, cancel_requested_, main_vars, result, result_mutex, file_index,
                    wpc, current_index, progress, page_count, doc_mutex, collected,
                    conversion_result, hist_vars >>

TaskSave(w, p) ==
    /\ p \in 1..Len(futures[w])
    /\ futures[w][p] = "created"
    /\ \E how \in Finished :
          /\ futures' = [futures EXCEPT ![w][p] = how]
          /\ page_semaphore' = [page_semaphore EXCEPT ![w] = GuardRelease(@, how)]
          /\ succeeded' = IF how = "true"
                          THEN [succeeded EXCEPT ![pdf_files[current_index[w] + 1]] = @ + 1]
                          ELSE succeeded
          /\ LET d == pdf_files[current_index[w] + 1]
                 output_filename == GenerateOutputFilename(paths[d], PageNumber(p - 1), "png").value
                 output_path == OutputPath(output_filename)
             IN  IF how = "true"
                 THEN /\ out_files' = SaveImage(out_files, output_path)
                      /\ writers' = writers \cup {<< output_path, d, p >>}
                 ELSE UNCHANGED << out_files, writers >>
    /\ UNCHANGED << env_vars, result_read, cancel_requested_, main_vars, result, result_mutex, file_index,
                    wpc, current_index, progress, page_count, doc_mutex, collected,
                    conversion_result, claim_log, recorded, cancel_mark, observed, observed_on >>

\* ------------------------------------------------------------------ Next
Pages == 1..Max(MaxPages, ConvMaxPages)

WorkerStep(w) ==
    \/ WorkerCheck(w)
    \/ WorkerClaim(w)
    \/ WorkerSnapshotLock(w)
    \/ WorkerSnapshotRead(w)
    \/ WorkerCallback(w)
    \/ ConvertLoad(w)
    \/ ConvertDispatch(w)
    \/ ConvertDispatchDone(w)
    \/ ConvertCollect(w)
    \/ ConvertReturn(w)
    \/ WorkerRecordLock(w)
    \/ WorkerRecord(w)

TaskStep(w, p) ==
    \/ TaskAcquire(w, p)
    \/ TaskLock(w, p)
    \/ TaskCreatePage(w, p)
    \/ TaskNoPage(w, p)
    \/ TaskSave(w, p)

MainStep ==
    \/ Begin
    \/ LaunchWorker
    \/ LaunchDone
    \/ JoinWorker
    \/ Return

\* the steps of one process_directory call and of the cancel_processing that
\* may accompany it
RunStep ==
    \/ MainStep
    \/ Cancel
    \/ \E w \in Workers : WorkerStep(w)
    \/ \E w \in Workers, p \in Pages : TaskStep(w, p)

Next ==
    \/ RunStep
    \/ \E count \in Requests : SetThreadCount(count)

Spec == Init /\ [][Next]_vars

\* one document converted by a processor constructed with one worker, whose
\* thread count is left as constructed
SpecConv == InitConv /\ [][RunStep]_vars

\* the scheduler runs every thread that can take a step; cancel_processing is
\* an outside caller's choice and may never happen
Fairness ==
    /\ WF_vars(MainStep)
    /\ \A w \in Workers : WF_vars(WorkerStep(w))
    /\ \A w \in Workers, p \in Pages : WF_vars(TaskStep(w, p))

\* two process_directory calls on one BatchProcessor that overlap in time
SpecShared == InitShared /\ [][RunStep \/ OtherStep]_vars

SpecParallel == InitParallel /\ [][RunStep]_vars

SpecCalls == InitCalls /\ [][CallStep]_vars

\* a batch run once or twice into the same output directory
SpecFiles == InitFiles /\ [][RunStep \/ RunAgain]_vars

\* one document converted by convert_pdf, then one page by convert_page
SpecResults == InitConv /\ [][RunStep \/ CallConvertPage]_vars

\* a run that starts with the flag already set by an earlier cancel_processing
SpecEarly == InitEarly /\ [][RunStep]_vars

\* the observer never returns from the call made for the first file
ObserverBlocks(w) == wpc[w] = "callback" /\ progress[w].current_file = 1

\* every thread that can take a step is run, except the worker inside the
\* observer's blocking call
FairnessBlocked ==
    /\ WF_vars(MainStep)
    /\ \A w \in Workers : WF_vars(WorkerStep(w) /\ ~ObserverBlocks(w))
    /\ \A w \in Workers, p \in Pages : WF_vars(TaskStep(w, p))

SpecBlocked == InitBlocked /\ [][RunStep]_vars /\ FairnessBlocked

SpecObserved == InitObserved /\ [][RunStep]_vars

FairSpec == Init /\ [][Next]_vars /\ Fairness

\* ------------------------------------------------------------ properties
Returned == mpc = "returned"
Outcomes == result.successful_conversions + result.failed_conversions
\* the document indices handed out so far (fetch_add results below N)
ClaimedDocs == {claim_log[k] : k \in 1..Len(claim_log)} \cap (0..(N - 1))
\* the workers that hold a claimed document
Busy(w) == wpc[w] \in {"snapshot", "snapshot_read", "callback", "convert", "dispatch",
                       "collect", "record", "record_locked"}
\* convert_pdf has returned to the worker from a document that loaded
Converted(w) ==
    /\ wpc[w] \in {"record", "record_locked"}
    /\ Loads(docs[pdf_files[current_index[w] + 1]])
\* convert_pdf has returned to the worker from a document that did not load
LoadRefused(w) ==
    /\ wpc[w] \in {"record", "record_locked"}
    /\ ~Loads(docs[pdf_files[current_index[w] + 1]])
CollectedTasks(w) == 1..collected[w]
ActiveTasks(w) == {p \in 1..Len(futures[w]) : futures[w][p] \in Active}
SucceededTasks(w) == {p \in 1..Len(futures[w]) : futures[w][p] = "true"}

\* C1 as stated: every returned BatchResult has
\* successful_conversions + failed_conversions == total_pdfs.
C1_Original == Returned => Outcomes = result.total_pdfs

\* C1 amended: the returned BatchResult has successful_conversions +
\* failed_conversions equal to the number of documents the workers claimed,
\* which is at most total_pdfs; the sum equals total_pdfs in a run whose
\* output directory was prepared, that started a worker and was not cancelled.
C1_OutcomesEqualClaimed ==
    Returned =>
        /\ Outcomes = Cardinality(ClaimedDocs)
        /\ Outcomes <= result.total_pdfs
        /\ (dir_ok /\ launched >= 1 /\ ~cancel_requested_) => Outcomes = result.total_pdfs

C1_Witness ==
    /\ Returned
    /\ cancel_requested_
    /\ Outcomes >= 1
    /\ Outcomes < result.total_pdfs

\* C2: the values fetch_add hands out are 0, 1, 2, ... in order, without gap
\* or repetition; no two workers hold the same index and no document is
\* recorded twice.
C2_ClaimsDistinctInOrder ==
    /\ \A k \in 1..Len(claim_log) : claim_log[k] = k - 1
    /\ \A v, w \in Workers : (v # w /\ Busy(v) /\ Busy(w)) => current_index[v] # current_index[w]
    /\ \A d \in 1..Len(docs) : recorded[d] <= 1

C2_Witness ==
    /\ Len(claim_log) = 2
    /\ \E v, w \in Workers : v # w /\ wpc[v] = "collect" /\ wpc[w] = "collect"

\* C3: when process_directory returns, every claimed document index has added
\* exactly one outcome to the result (one increment of successful_conversions
\* or failed_conversions), and an unclaimed index none; this includes documents
\* that failed and runs that were cancelled.
C3_OneOutcomePerClaim ==
    /\ \A d \in 1..Len(docs) : recorded[d] > 0 => (d - 1) \in ClaimedDocs
    /\ Returned =>
          /\ \A d \in 1..Len(docs) : recorded[d] = IF (d - 1) \in ClaimedDocs THEN 1 ELSE 0
          /\ Outcomes = Cardinality({d \in 1..Len(docs) : recorded[d] = 1})

C3_Witness ==
    /\ Returned
    /\ cancel_mark >= 1
    /\ result.failed_conversions >= 1
    /\ result.successful_conversions >= 1

\* C4 as stated: once the cancel flag is set with K the highest index claimed,
\* no index greater than K is claimed (cancel_mark = K + 1).
C4_Original ==
    cancel_mark >= 0 => \A d \in ClaimedDocs : d < cancel_mark

\* C4 amended: once the cancel flag is set with K the highest index claimed,
\* each started worker claims at most one further index (a worker that passed
\* the loop test before the flag was set still performs its fetch_add), so no
\* index greater than K + (number of workers started) is claimed; every claimed
\* index has its outcome recorded in the returned BatchResult.
C4_AtMostOneMoreEach ==
    /\ cancel_mark >= 0 => \A d \in ClaimedDocs : d < cancel_mark + launched
    /\ (Returned /\ cancel_mark >= 0) => \A d \in ClaimedDocs : recorded[d + 1] = 1

C4_Witness ==
    /\ Returned
    /\ cancel_mark = 0
    /\ launched = 1
    /\ Cardinality(ClaimedDocs) = 1
    /\ N = 2

\* C5: in a run that started a worker and is never cancelled, every discovered
\* document is eventually claimed, converted and recorded, whatever fails.
AllRecorded ==
    /\ \A d \in 1..Len(docs) : recorded[d] = 1
    /\ Outcomes = Len(docs)
C5_AllProcessed == (launched >= 1) ~> (cancel_requested_ \/ AllRecorded)

C5_Witness ==
    /\ AllRecorded
    /\ ~cancel_requested_
    /\ Len(docs) = 2
    /\ result.failed_conversions >= 1
    /\ result.errors[1].path = 1

\* C6: process_directory returns only after every worker it started has
\* exited, and under fair scheduling it does return.
C6_ReturnsAfterWorkers ==
    /\ [](Returned => \A w \in Workers : wpc[w] \in {"idle", "exited"})
    /\ <>Returned

C6_Witness ==
    /\ Returned
    /\ launched = 2
    /\ Outcomes = 2

\* C7: within one convert_pdf call the page tasks past acquire() and not yet
\* finished never number more than min(8, max(2, hardware_concurrency)).
C7_BoundedPages ==
    \A w \in Workers :
        Cardinality(ActiveTasks(w)) <=
            (IF hardware_concurrency < 2 THEN 2
             ELSE IF hardware_concurrency > 8 THEN 8 ELSE hardware_concurrency)

C7_Witness ==
    \E w \in Workers :
        /\ Cardinality(ActiveTasks(w)) = 2
        /\ hardware_concurrency <= 2
        /\ \E p \in 1..Len(futures[w]) : futures[w][p] = "wait"

\* C8: every page task gives back the permit it took, on every exit path:
\* permits held plus permits available stay max_concurrent_pages while the
\* semaphore lives, and all are available when convert_pdf returns.
C8_PermitsConserved ==
    \A w \in Workers :
        /\ wpc[w] \in {"dispatch", "collect"} =>
              page_semaphore[w] + Cardinality(ActiveTasks(w)) = max_concurrent_pages
        /\ Converted(w) =>
              /\ ActiveTasks(w) = {}
              /\ page_semaphore[w] = max_concurrent_pages

C8_Witness ==
    \E w \in Workers :
        /\ Converted(w)
        /\ \E p, q, r \in 1..Len(futures[w]) :
              /\ futures[w][p] = "exception"
              /\ futures[w][q] = "false"
              /\ futures[w][r] = "true"

\* C9: a loaded document with P pages of which S tasks returned true gives
\* pages_converted == S and success == (S > 0).
C9_PagesCounted ==
    \A w \in Workers :
        Converted(w) =>
            /\ conversion_result[w].pages_converted = Cardinality(SucceededTasks(w))
            /\ conversion_result[w].success = (Cardinality(SucceededTasks(w)) > 0)

C9_Witness ==
    \E w \in Workers :
        /\ Converted(w)
        /\ Len(futures[w]) = 3
        /\ Cardinality(SucceededTasks(w)) = 2
        /\ futures[w][2] = "false"

\* C10: convert_pdf dispatches one task per page and returns only when all of
\* them have finished, also after a page failed or the cancel flag was set.
C10_AllPagesRun ==
    \A w \in Workers :
        Converted(w) =>
            /\ Len(futures[w]) = docs[pdf_files[current_index[w] + 1]]
            /\ \A p \in 1..Len(futures[w]) : futures[w][p] \in Finished

C10_Witness ==
    \E w \in Workers :
        /\ Converted(w)
        /\ cancel_requested_
        /\ Len(futures[w]) = 3
        /\ futures[w][1] = "false"
        /\ futures[w][3] = "true"

\* C11: an exception thrown inside one page task stays inside convert_pdf:
\* the collect loop goes on after it, it adds nothing to pages_converted, and
\* when convert_pdf returns every sibling task has finished and is counted by
\* its own value.
C11_FaultContained ==
    \A w \in Workers :
        /\ wpc[w] \in {"idle", "check", "claim", "snapshot", "snapshot_read", "callback", "convert",
                       "dispatch", "collect", "record", "record_locked", "exited"}
        /\ wpc[w] = "collect" =>
               conversion_result[w].pages_converted =
                   Cardinality(CollectedTasks(w) \cap SucceededTasks(w))
        /\ (\E p \in CollectedTasks(w) : futures[w][p] = "exception") =>
               wpc[w] \in {"collect", "record", "record_locked"}
        /\ Converted(w) =>
               /\ \A p \in 1..Len(futures[w]) : futures[w][p] \in Finished
               /\ collected[w] = Len(futures[w])
               /\ conversion_result[w].pages_converted = Cardinality(SucceededTasks(w))

C11_Witness ==
    \E w \in Workers :
        /\ Converted(w)
        /\ Len(futures[w]) = 3
        /\ futures[w][1] = "exception"
        /\ futures[w][2] = "true"
        /\ futures[w][3] = "true"
        /\ conversion_result[w].pages_converted = 2
        /\ conversion_result[w].success

\* C12: a document that does not load (no document, or a locked one) makes
\* convert_pdf return success == false, pages_converted == 0 and a non-empty
\* error message, with no limiter built or acquired and no page task dispatched.
C12_LoadFailure ==
    \A w \in Workers :
        LoadRefused(w) =>
            /\ conversion_result[w].success = FALSE
            /\ conversion_result[w].pages_converted = 0
            /\ conversion_result[w].error_message # ""
            /\ futures[w] = << >>
            /\ page_count[w] = 0
            /\ page_semaphore[w] = 0

C12_Witness ==
    \E w \in Workers :
        /\ LoadRefused(w)
        /\ docs[pdf_files[current_index[w] + 1]] = -2
        /\ conversion_result[w].error_message = "Failed to load PDF document"

\* the error entries of the shared result that name document d
ErrorsOf(d) == {k \in 1..Len(result.errors) : result.errors[k].path = d}
\* no worker was started and nothing was claimed, announced or converted
NothingStarted ==
    /\ launched = 0
    /\ \A w \in Workers : wpc[w] = "idle"
    /\ file_index = 0
    /\ claim_log = << >>
    /\ observed = << >>
    /\ \A d \in 1..Len(docs) : recorded[d] = 0 /\ succeeded[d] = 0

\* C13: with no PDF file discovered, process_directory returns at once: all
\* four totals are 0, errors is exactly << "No PDF files found in input
\* directory" >>, no worker is started, no progress callback is invoked and
\* the output directory is not prepared.
C13_NoFiles ==
    (mpc # "start" /\ Len(docs) = 0) =>
        /\ Returned
        /\ result.total_pdfs = 0
        /\ result.successful_conversions = 0
        /\ result.failed_conversions = 0
        /\ result.total_pages_converted = 0
        /\ Len(result.errors) = 1
        /\ result.errors[1].message = "No PDF files found in input directory"
        /\ NothingStarted
        /\ output_dir = "untouched"

C13_Witness ==
    /\ Returned
    /\ Len(docs) = 0
    /\ has_callback
    /\ num_threads_ = 2
    /\ dir_ok

\* C14 as stated: when the output directory cannot be prepared the returned
\* BatchResult has all four totals zero (total_pdfs included) and one error.
C14_Original ==
    (Returned /\ output_dir = "failed") =>
        /\ result.total_pdfs = 0
        /\ result.successful_conversions = 0
        /\ result.failed_conversions = 0
        /\ result.total_pages_converted = 0
        /\ Len(result.errors) = 1

\* C14 amended: when the output directory cannot be prepared,
\* process_directory returns before starting any worker; successful_conversions,
\* failed_conversions and total_pages_converted are 0, total_pdfs is the number
\* of PDF files discovered (at least 1), errors has exactly one entry, and no
\* document is claimed or converted.
C14_DirFailed ==
    (mpc # "start" /\ output_dir = "failed") =>
        /\ Returned
        /\ result.total_pdfs = Len(docs)
        /\ result.total_pdfs >= 1
        /\ result.successful_conversions = 0
        /\ result.failed_conversions = 0
        /\ result.total_pages_converted = 0
        /\ Len(result.errors) = 1
        /\ result.errors[1].message = "Failed to create output directory"
        /\ NothingStarted

C14_Witness ==
    /\ Returned
    /\ output_dir = "failed"
    /\ result.total_pdfs = 2
    /\ num_threads_ = 2

\* C15 as stated: the effective worker count is always at least 1, after the
\* constructor and after every set_thread_count.
C15_Original == num_threads_ >= 1

\* C16 as stated: a run that reaches the worker phase has started exactly
\* num_threads_ workers when it returns, whenever cancellation is requested.
C16_Original == (Returned /\ output_dir = "ready") => launched = num_threads_

\* C16 amended: a run that reaches the worker phase starts at most num_threads_
\* workers, and exactly num_threads_ unless cancel_processing set the flag
\* before the launch loop started its last worker; every started worker is
\* joined before the run returns.
C16_StartsUnlessCancelled ==
    (mpc \in {"join", "returned"} /\ output_dir = "ready") =>
        /\ launched <= num_threads_
        /\ launched < num_threads_ => cancel_requested_
        /\ Returned => joined = launched

C16_Witness ==
    /\ Returned
    /\ output_dir = "ready"
    /\ num_threads_ = 2
    /\ launched = 1
    /\ cancel_requested_
    /\ Outcomes >= 1

\* worker w leaves the "Update results" block in this step
Records(w) == wpc[w] = "record_locked" /\ wpc'[w] # "record_locked"

\* C17: the step that records one ConversionResult adds 1 to
\* successful_conversions and pages_converted to total_pages_converted on
\* success, adds 1 to failed_conversions and appends the one entry
\* <path, message> to errors on failure, and changes nothing else; no other
\* step of the worker phase changes the result. So a recorded document has one
\* error entry if it failed and none if it succeeded.
C17_RecordEffect ==
    /\ [][\A w \in Workers :
            Records(w) =>
                LET res == conversion_result[w]
                    path == pdf_files[current_index[w] + 1]
                IN  IF res.success
                    THEN result' = [result EXCEPT
                             !.successful_conversions = @ + 1,
                             !.total_pages_converted = @ + res.pages_converted]
                    ELSE result' = [result EXCEPT
                             !.failed_conversions = @ + 1,
                             !.errors = Append(@, [path |-> path, message |-> res.error_message])]]_vars
    /\ [][result' # result => (mpc = "start" \/ \E w \in Workers : Records(w))]_vars
    /\ [](\A d \in 1..Len(docs) :
            Cardinality(ErrorsOf(d)) = IF recorded[d] >= 1 /\ succeeded[d] = 0 THEN 1 ELSE 0)

C17_Witness ==
    /\ result.successful_conversions = 1
    /\ result.failed_conversions = 1
    /\ result.total_pages_converted = 1
    /\ Len(result.errors) = 1
    /\ result.errors[1].path = 1
    /\ result.errors[1].message = "No pages were successfully converted"
    /\ ErrorsOf(2) = {}

\* f[1] + ... + f[n]
RECURSIVE SumTo(_, _)
SumTo(f, n) == IF n = 0 THEN 0 ELSE f[n] + SumTo(f, n - 1)

\* worker w is between the lock and the unlock of one of the two result_mutex
\* blocks (the pages read of the progress snapshot, the "Update results" block)
InResult(w) == wpc[w] \in {"snapshot_read", "record_locked"}

\* the successful pages of the documents recorded so far
RecordedPages == [d \in 1..Len(docs) |-> IF recorded[d] >= 1 THEN succeeded[d] ELSE 0]

\* C18: a worker reads or writes the shared result only while it holds
\* result_mutex; at most one worker is inside at a time; what a worker read
\* inside the block is still the current value when it writes; and no update is
\* lost: the counters and the error list account for every recorded document.
C18_ResultSerialized ==
    /\ \A w \in Workers : InResult(w) <=> result_mutex = w
    /\ \A v, w \in Workers : (InResult(v) /\ InResult(w)) => v = w
    /\ \A w \in Workers : wpc[w] = "record_locked" => result_read[w] = result
    /\ output_dir = "ready" =>
          /\ Outcomes = SumTo(recorded, Len(docs))
          /\ result.total_pages_converted = SumTo(RecordedPages, Len(docs))
          /\ Len(result.errors) = result.failed_conversions

C18_Witness ==
    /\ wpc[1] = "record_locked"
    /\ wpc[2] = "record"
    /\ result_mutex = 1
    /\ conversion_result[1].success
    /\ conversion_result[2].success
    /\ result.successful_conversions = 0

\* the documents of which at least one page task returned true
DocsWithPage == {d \in 1..Len(docs) : succeeded[d] > 0}
\* the returned counters as the per-document outcomes alone determine them
CountersFromOutcomes ==
    /\ result.total_pdfs = Len(docs)
    /\ result.successful_conversions = Cardinality(DocsWithPage)
    /\ result.failed_conversions = Len(docs) - Cardinality(DocsWithPage)
    /\ result.total_pages_converted = SumTo(succeeded, Len(docs))
    /\ Len(result.errors) = result.failed_conversions
    /\ \A d \in 1..Len(docs) : Cardinality(ErrorsOf(d)) = IF d \in DocsWithPage THEN 0 ELSE 1

\* C19 as stated: an uncancelled run that reached the worker phase returns
\* counters that are a function of the per-document outcomes only:
\* successful_conversions = documents with a successful page,
\* failed_conversions = the rest, total_pages_converted = the sum of successful
\* pages, and one error entry per failed document.
C19_Original ==
    (Returned /\ output_dir = "ready" /\ ~cancel_requested_) => CountersFromOutcomes

\* what the code does give: the same for every run that started a worker
C19_WithAWorker ==
    (Returned /\ output_dir = "ready" /\ ~cancel_requested_ /\ launched >= 1) => CountersFromOutcomes

\* the snapshots delivered for document index i (current_file = i + 1)
Announced(i) == {k \in 1..Len(observed) : observed[k].current_file = i + 1}
\* worker w is inside convert_pdf or past it for the document it holds
Converting(w) == wpc[w] \in {"convert", "dispatch", "collect", "record", "record_locked"}
\* worker w calls the observer in this step
Calls(w) == wpc[w] = "callback" /\ wpc'[w] # "callback"

\* C20: with an observer configured, the worker that claimed an index calls
\* the observer once for it, after the claim and before convert_pdf starts for
\* that document; pages_processed is the total_pages_converted the worker read
\* under result_mutex after its claim, so it holds no page of the announced
\* document. Without an observer nothing is delivered.
C20_CallbackBeforeConversion ==
    /\ [](\A w \in Workers :
            (has_callback /\ Converting(w)) => Cardinality(Announced(current_index[w])) = 1)
    /\ [](\A k \in 1..Len(observed) :
            LET d == observed[k].current_file IN
            /\ (d - 1) \in ClaimedDocs
            /\ Cardinality(Announced(d - 1)) = 1
            /\ observed[k].total_files = N
            /\ observed[k].pages_processed <= result.total_pages_converted - RecordedPages[d])
    /\ [](~has_callback => observed = << >>)
    /\ [][\A w \in Workers :
            (wpc[w] = "snapshot_read" /\ wpc'[w] # "snapshot_read") =>
                progress'[w] = [current_file |-> current_index[w] + 1,
                                total_files |-> N,
                                pages_processed |-> result.total_pages_converted]]_vars
    /\ [][\A w \in Workers :
            Calls(w) =>
                /\ observed' = Append(observed, progress[w])
                /\ progress[w].current_file = current_index[w] + 1
                /\ recorded[progress[w].current_file] = 0
                /\ succeeded[progress[w].current_file] = 0
                /\ futures[w] = << >>]_vars

C20_Witness ==
    /\ Len(observed) = 2
    /\ observed[1].current_file = 2
    /\ observed[2].current_file = 1
    /\ observed[2].pages_processed = 1
    /\ \E w \in Workers : wpc[w] = "dispatch" /\ current_index[w] = 0

\* worker w holds a claimed document and has not entered convert_pdf for it
BeforeConversion(w) == wpc[w] \in {"snapshot", "snapshot_read", "callback"}

\* C21 as stated: the progress snapshot for a document is emitted after its
\* conversion ran and its ConversionResult was forwarded to the shared result,
\* so every delivered snapshot names a recorded document.
C21_Original ==
    \A k \in 1..Len(observed) : recorded[observed[k].current_file] >= 1

\* C21 amended: for each claimed document the worker first emits the progress
\* snapshot (when an observer is configured), then runs the conversion, then
\* forwards the ConversionResult to the shared result; nothing is emitted after
\* the result is forwarded.
C21_SnapshotConvertRecord ==
    \A w \in Workers :
        /\ BeforeConversion(w) =>
              /\ has_callback
              /\ futures[w] = << >>
              /\ conversion_result[w] = NoResult
              /\ succeeded[current_index[w] + 1] = 0
              /\ recorded[current_index[w] + 1] = 0
        /\ wpc[w] \in {"snapshot", "snapshot_read"} => Announced(current_index[w]) = {}
        /\ Converting(w) =>
              /\ recorded[current_index[w] + 1] = 0
              /\ has_callback => Announced(current_index[w]) # {}
        /\ \A d \in 1..Len(docs) :
              (recorded[d] >= 1 /\ has_callback) => Cardinality(Announced(d - 1)) = 1

C21_Witness ==
    /\ Len(observed) = 1
    /\ observed[1].current_file = 1
    /\ recorded[1] = 0
    /\ \E w \in Workers :
          /\ wpc[w] = "record"
          /\ current_index[w] = 0
          /\ conversion_result[w].success

\* C22: with an observer, every delivered snapshot names a claimed document
\* (never an index >= N), no document is announced twice, every document that
\* reached conversion was announced exactly once, and the calls one worker
\* makes come in increasing ordinal order; when the run returns there is one
\* snapshot per claimed document. Without an observer no worker enters the
\* emission step and nothing is delivered; the emission step never changes the
\* shared result.
C22_OncePerClaim ==
    /\ [](Len(observed_on) = Len(observed))
    /\ [](\A k \in 1..Len(observed) :
            /\ observed[k].current_file \in 1..N
            /\ (observed[k].current_file - 1) \in ClaimedDocs
            /\ \A j \in 1..Len(observed) :
                  observed[j].current_file = observed[k].current_file => j = k
            /\ \A j \in 1..(k - 1) :
                  observed_on[j] = observed_on[k] =>
                      observed[j].current_file < observed[k].current_file)
    /\ [](has_callback =>
            /\ \A w \in Workers :
                  Converting(w) => Cardinality(Announced(current_index[w])) = 1
            /\ Returned => Len(observed) = Cardinality(ClaimedDocs))
    /\ [](~has_callback =>
            /\ observed = << >>
            /\ \A w \in Workers : ~BeforeConversion(w))
    /\ [][\A w \in Workers :
            (BeforeConversion(w) /\ wpc'[w] # wpc[w]) => result' = result]_vars

C22_Witness ==
    /\ Returned
    /\ observed_on = << 1, 1 >>
    /\ observed[1].current_file = 1
    /\ observed[2].current_file = 2
    /\ launched = 2
    /\ Len(claim_log) = 4

\* the observer received snapshot j before snapshot k
Earlier(j, k) == j \in 1..Len(observed) /\ k \in 1..Len(observed) /\ j < k

\* C30: total_pages_converted never decreases while the workers run, every
\* delivered pages_processed is a value the total had (at most the current
\* one), and the snapshots one worker delivers have increasing current_file and
\* non-decreasing pages_processed; across workers neither is monotonic (the
\* witness).
C30_SnapshotsMayBeStale ==
    /\ [][mpc # "start" => result'.total_pages_converted >= result.total_pages_converted]_vars
    /\ [](\A k \in 1..Len(observed) :
            /\ observed[k].pages_processed >= 0
            /\ observed[k].pages_processed <= result.total_pages_converted)
    /\ [](\A j, k \in 1..Len(observed) :
            (j < k /\ observed_on[j] = observed_on[k]) =>
                /\ observed[j].current_file < observed[k].current_file
                /\ observed[j].pages_processed <= observed[k].pages_processed)

C30_Witness ==
    /\ \E j, k \in 1..Len(observed) :
          Earlier(j, k) /\ observed[j].current_file > observed[k].current_file
    /\ \E j, k \in 1..Len(observed) :
          Earlier(j, k) /\ observed[j].pages_processed > observed[k].pages_processed

\* this run is in its worker phase: between line 129 and its return
Running == mpc \in {"launch", "join"}

\* C23 as stated: the flag is false when the run starts, changes only from
\* false to true, and is not set back to false before the run has returned.
C23_Original ==
    /\ [][(mpc = "start" /\ mpc' # "start") => ~cancel_requested_']_vars
    /\ [][(Running /\ cancel_requested_) => cancel_requested_']_vars

\* what the code gives on a processor that runs one process_directory at a time
C23_SingleRun ==
    /\ [][(mpc = "start" /\ mpc' # "start") => ~cancel_requested_']_vars
    /\ [][(Running /\ cancel_requested_) => cancel_requested_']_vars
    /\ [](Running => (cancel_requested_ <=> cancel_mark >= 0))

\* C29 as stated: overlapping runs do not interfere through the flag or the
\* claim index: a cancellation requested for this run (cancel_mark >= 0) stays
\* in force until the run returns, and a run whose own cancellation was never
\* requested and that started a worker processes every document.
C29_Original ==
    /\ (Running /\ cancel_mark >= 0) => cancel_requested_
    /\ (Returned /\ output_dir = "ready" /\ cancel_mark = -1 /\ launched >= 1) =>
          Outcomes = result.total_pdfs

\* the page tasks of the whole run that hold a permit
ActivePairs == {wp \in Workers \X Pages : wp[2] \in ActiveTasks(wp[1])}

ThreeDigits(n) == DigitChar(n \div 100) \o DigitChar((n \div 10) % 10) \o DigitChar(n % 10)

\* C24: for page index i with page number i + 1 in 1..999, the page task's
\* call returns stem(path) + "_page_" + the page number in exactly three
\* decimal digits + "." + format, and nothing else decides the value.
C24_FilenameFormat ==
    (call.fn = "generate_output_filename" /\ ret # NoRet /\ call.i + 1 \in 1..999) =>
        /\ ret.kind = "string"
        /\ ret.value = call.pdf_path.stem \o "_page_" \o ThreeDigits(call.i + 1)
                           \o "." \o call.output_format
        /\ Len(ret.value) = Len(call.pdf_path.stem) + Len(call.output_format) + 10

C24_Witness ==
    /\ call.fn = "generate_output_filename"
    /\ call.pdf_path.stem = "report"
    /\ call.i = 6
    /\ call.output_format = "png"
    /\ ret = [kind |-> "string", value |-> "report_page_007.png"]

\* the scale factor one axis gets on its own: dpi / 72, or limit / size when a
\* positive limit is exceeded at dpi / 72
AxisFactor(dpi, size, limit) ==
    IF limit > 0 /\ size * dpi > limit * 72 THEN << limit, size >> ELSE << dpi, 72 >>

C25_Original ==
    \A a, b \in writers : a[1] = b[1] => (a[2] = b[2] /\ a[3] = b[3])

\* what the code gives: no collision when the discovered stems are distinct
C25_DistinctStems ==
    (\A d, e \in 1..Len(docs) : paths[d].stem = paths[e].stem => d = e) => C25_Original

\* the (document, page) pairs a run saved
SavedPairs(saves) == {<< a[2], a[3] >> : a \in saves}

\* C26: when the second run of the same batch has returned with the same
\* page outcomes as the first, the output directory holds exactly the file
\* names the first run left; at no time does the second run add a name the
\* first run could not have written.
C26_RerunSameFiles ==
    first_run # NoRun =>
        /\ first_run.out_files \subseteq out_files
        /\ out_files = first_run.out_files \cup {a[1] : a \in writers}
        /\ SavedPairs(writers) \subseteq SavedPairs(first_run.writers) =>
              out_files = first_run.out_files
        /\ (Returned /\ SavedPairs(writers) = SavedPairs(first_run.writers)) =>
              /\ out_files = first_run.out_files
              /\ {a[1] : a \in writers} = {a[1] : a \in first_run.writers}

C26_Witness ==
    /\ first_run # NoRun
    /\ Returned
    /\ Cardinality(first_run.out_files) = 2
    /\ SavedPairs(writers) = SavedPairs(first_run.writers)
    /\ out_files = first_run.out_files
    /\ Cardinality(writers) = 2


\* a ConversionResult whose three fields agree
WellFormed(r) ==
    /\ (r.error_message = "") <=> r.success
    /\ (r.pages_converted > 0) <=> r.success

\* C31: every ConversionResult that convert_pdf or convert_page returns has
\* error_message empty exactly when success is true and pages_converted > 0
\* exactly when success is true; convert_page gives pages_converted 1 on
\* success and 0 otherwise, and a page number outside 1..page count fails
\* without create_page being reached.
C31_ResultWellFormed ==
    /\ \A w \in Workers : wpc[w] \in {"record", "record_locked"} => WellFormed(conversion_result[w])
    /\ ret.kind = "result" =>
          /\ WellFormed(ret.result)
          /\ ret.result.pages_converted = IF ret.result.success THEN 1 ELSE 0
          /\ (call.page_number < 1 \/ call.page_number > call.pages) =>
                (~ret.result.success /\ ~ret.rendered)

C31_Witness ==
    /\ result.failed_conversions = 1
    /\ Len(result.errors) = 1
    /\ result.errors[1].message = "No pages were successfully converted"
    /\ ret.kind = "result"
    /\ call.pages = ConvMaxPages
    /\ call.page_number = ConvMaxPages + 1
    /\ ~ret.result.success


\* the size_t value 2^(16 * SizeLimbs) - n, for n in 1..LimbBase
NearTop(n) == [k \in 1..SizeLimbs |-> IF k = 1 THEN LimbBase - n ELSE LimbBase - 1]

\* C32: for a page number >= 1000 the padding count 3 - (number of digits)
\* wraps in size_t to 2^w - (digits - 3), and generate_output_filename
\* returns no name (the string constructor throws); for a page number in
\* 1..999 the count is 0, 1 or 2 and a name is returned.
C32_PaddingWraps ==
    (call.fn = "generate_output_filename" /\ ret # NoRet) =>
        LET page_number == call.i + 1
            length == Len(to_string(page_number))
        IN  IF page_number >= 1000
            THEN /\ PaddingCount(length) = NearTop(length - 3)
                 /\ ExceedsMaxSize(PaddingCount(length))
                 /\ ret.kind # "string"
            ELSE /\ PaddingCount(length) \in {SizeT(0), SizeT(1), SizeT(2)}
                 /\ PaddingCount(length) = SizeT(3 - length)
                 /\ ret.kind = "string"

C32_Witness ==
    /\ call.fn = "generate_output_filename"
    /\ call.i = 999
    /\ ret = [kind |-> "throws", value |-> "length_error"]
    /\ PaddingCount(4) = << 65535, 65535, 65535, 65535 >>


\* the documents claimed since cancel_processing set the flag
ClaimedAfterCancel == {d \in ClaimedDocs : d >= cancel_mark}
\* the workers between the loop test and their fetch_add
AtClaim == {w \in Workers : wpc[w] = "claim"}

\* C33: after the cancel flag has been set no worker passes the loop test any
\* more, so each worker claims at most one further document (the one whose
\* fetch_add it was about to perform); at most as many documents as there are
\* workers are claimed after the cancellation, and a worker that comes back
\* to the loop test after finishing its document exits.
C33_OneMoreClaimPerWorker ==
    /\ [](cancel_mark >= 0 =>
            /\ Cardinality(ClaimedAfterCancel) + Cardinality(AtClaim) <= launched
            /\ Cardinality(ClaimedAfterCancel) <= Cardinality(Workers))
    /\ [][cancel_mark >= 0 => \A w \in Workers : wpc'[w] = "claim" => wpc[w] = "claim"]_vars
    /\ [][cancel_mark >= 0 =>
            \A w \in Workers : (wpc[w] = "check" /\ wpc'[w] # "check") => wpc'[w] = "exited"]_vars
    /\ [][cancel_mark >= 0 =>
            \A w \in Workers : (wpc[w] = "record_locked" /\ wpc'[w] # "record_locked") =>
                                  wpc'[w] = "check"]_vars

C33_Witness ==
    /\ Returned
    /\ cancel_mark = 0
    /\ launched = 2
    /\ Cardinality(ClaimedAfterCancel) = 2
    /\ \A w \in Workers : wpc[w] = "exited"
    /\ Outcomes = 2


\* C34 as stated: a cancel_processing() that completed before the run started
\* has no effect on it: unless cancelled again while it runs (cancel_mark >= 0)
\* the run sees the flag false throughout and has processed every document
\* when it returns.
C34_Original ==
    /\ (mpc # "start" /\ cancel_mark = -1) => ~cancel_requested_
    /\ (Returned /\ cancel_mark = -1) => \A d \in 1..Len(docs) : recorded[d] = 1

\* what the code gives: the same, when the processor has at least one thread
C34_WithAWorker ==
    /\ (mpc # "start" /\ cancel_mark = -1) => ~cancel_requested_
    /\ (Returned /\ cancel_mark = -1 /\ num_threads_ >= 1) =>
          /\ launched = num_threads_
          /\ \A d \in 1..Len(docs) : recorded[d] = 1


\* C35: in every state of the worker phase, successful_conversions +
\* failed_conversions <= number of claimed documents <= total_pdfs, errors
\* has failed_conversions entries, total_pages_converted is the sum of the
\* pages converted of the documents recorded so far, and none of the three
\* counters ever decreases.
C35_CountersInvariant ==
    /\ [](Running =>
            /\ Outcomes <= Cardinality(ClaimedDocs)
            /\ Cardinality(ClaimedDocs) <= result.total_pdfs
            /\ Len(result.errors) = result.failed_conversions
            /\ result.total_pages_converted = SumTo(RecordedPages, Len(docs)))
    /\ [][Running =>
            /\ result'.successful_conversions >= result.successful_conversions
            /\ result'.failed_conversions >= result.failed_conversions
            /\ result'.total_pages_converted >= result.total_pages_converted]_vars

C35_Witness ==
    /\ Running
    /\ Cardinality(ClaimedDocs) = 2
    /\ result.failed_conversions = 0
    /\ result.successful_conversions = 1
    /\ result.total_pages_converted = 1
    /\ \E w \in Workers : wpc[w] = "record" /\ ~conversion_result[w].success


\* worker w is at a statement that reads pdf_files[current_index]
ReadsList(w) == Busy(w)

\* C36: a worker reads pdf_files only at an index in 0..N-1: a claimed value
\* >= N makes the worker leave the loop without touching the list, and the
\* claim counter never exceeds N + the number of workers, each worker
\* incrementing it at most once past the end.
C36_IndexInRange ==
    /\ [](/\ \A w \in Workers : ReadsList(w) => current_index[w] \in 0..(N - 1)
          /\ mpc # "start" => file_index <= N + launched
          /\ file_index <= N + Cardinality({w \in Workers : wpc[w] = "exited"})
          /\ Returned => file_index <= N + num_threads_)
    /\ [][\A w \in Workers :
            (wpc[w] = "claim" /\ wpc'[w] # "claim" /\ file_index >= N) =>
                (wpc'[w] = "exited" /\ file_index' = file_index + 1)]_vars
    /\ [][\A w \in Workers : wpc[w] = "exited" => wpc'[w] = "exited"]_vars

C36_Witness ==
    /\ Returned
    /\ N = 2
    /\ launched = 2
    /\ file_index = N + 2
    /\ claim_log = << 0, 1, 2, 3 >>


\* C37: during progress_callback the calling worker holds neither result_mutex
\* nor a page-limiter permit (it has no page task at all), so while the
\* observer blocks the caller of the first file the other worker still claims,
\* converts and records every other document, unless the run is cancelled.
C37_ObserverStallsOnlyCaller ==
    /\ [](\A w \in Workers : wpc[w] = "callback" =>
            /\ result_mutex # w
            /\ futures[w] = << >>
            /\ ActiveTasks(w) = {})
    /\ (launched = MaxThreads) ~>
          (cancel_requested_ \/ \A d \in 2..Len(docs) : recorded[d] = 1)

C37_Witness ==
    /\ \E w \in Workers : ObserverBlocks(w)
    /\ \E w \in Workers : wpc[w] = "exited"
    /\ recorded = << 0, 1 >>
    /\ result_mutex = 0
    /\ ~cancel_requested_


\* the page tasks of worker w's document that have not finished
Unfinished(w) == {p \in 1..Len(futures[w]) : futures[w][p] \notin Finished}

\* C38: no deadlock among workers and page tasks: a page task is inside the
\* doc_mutex block only while it holds a permit and has left it before it
\* renders; the holder of a mutex is never waiting; whenever a document has
\* unfinished page tasks one of them can take a step, and until
\* process_directory has returned some thread can take a step.
C38_NoDeadlock ==
    /\ \A w \in Workers :
          /\ doc_mutex[w] # 0 =>
                (doc_mutex[w] \in 1..Len(futures[w]) /\ futures[w][doc_mutex[w]] = "locked")
          /\ \A p \in 1..Len(futures[w]) : futures[w][p] = "locked" => doc_mutex[w] = p
          /\ wpc[w] \in {"dispatch", "collect"} =>
                page_semaphore[w] + Cardinality(ActiveTasks(w)) = max_concurrent_pages
          /\ result_mutex = w => wpc[w] \in {"snapshot_read", "record_locked"}
          /\ Unfinished(w) # {} => ENABLED (\E p \in Pages : TaskStep(w, p))
    /\ Running => ENABLED (MainStep \/ (\E w \in Workers : WorkerStep(w))
                               \/ (\E w \in Workers, p \in Pages : TaskStep(w, p)))

C38_Witness ==
    /\ wpc[1] = "collect"
    /\ page_semaphore[1] = 0
    /\ futures[1] = << "locked", "acquired", "wait" >>
    /\ doc_mutex[1] = 1


\* the page tasks of worker w's document inside the doc_mutex block
InCreatePage(w) == {p \in 1..Len(futures[w]) : futures[w][p] = "locked"}
\* the page tasks rendering and saving their page, or returning without one
Rendering(w) == {p \in 1..Len(futures[w]) : futures[w][p] \in {"created", "nopage"}}

\* C39: within one convert_pdf call at most one page task at a time is inside
\* create_page; a task enters it only from the state in which it holds a
\* permit and keeps the permit inside; rendering and saving run outside
\* doc_mutex, also while another task is inside create_page.
C39_CreatePageExclusive ==
    /\ [](\A w \in Workers :
            /\ Cardinality(InCreatePage(w)) <= 1
            /\ InCreatePage(w) \subseteq ActiveTasks(w)
            /\ Cardinality(ActiveTasks(w)) <= max_concurrent_pages
            /\ \A p \in InCreatePage(w) : doc_mutex[w] = p
            /\ \A p \in Rendering(w) : doc_mutex[w] # p)
    /\ [][\A w \in Workers : \A p \in 1..Len(futures[w]) :
            (p \in InCreatePage(w)' /\ p \notin InCreatePage(w)) =>
                (futures[w][p] = "acquired" /\ doc_mutex[w] = 0
                   /\ page_semaphore'[w] = page_semaphore[w])]_vars

C39_Witness ==
    /\ futures[1] = << "locked", "created", "acquired" >>
    /\ doc_mutex[1] = 1
    /\ page_semaphore[1] = 0
    /\ max_concurrent_pages = 3

====
